---- MODULE Spec2Model ----
(***************************************************************************)
(* Signal dispatch helpers of scrapy/utils/signal.py: send_catch_log,      *)
(* send_catch_log_deferred, send_deferred and disconnect_all, run against  *)
(* the pydispatch receiver table and Twisted's Deferred / DeferredList;     *)
(* and get_engine_status of scrapy/utils/engine.py.                         *)
(***************************************************************************)
EXTENDS Integers, Sequences, FiniteSets

(* ------------------------------ bounds -------------------------------- *)

\* most registrations (key, receiver) the table holds at once
MaxRegs == 2

\* most status expressions of one engine whose evaluation raises
MaxFailing == 2

(* --------------------------- value domains ---------------------------- *)

Any == "Any"
Receivers == {"r1", "r2"}
NoReceiver == "none"
ConcreteSenders == {"x1"}
ConcreteSignals == {"s1"}
Senders == ConcreteSenders \cup {Any}
Signals == ConcreteSignals \cup {Any}
\* a key of pydispatch's connections table: (sender, signal)
Keys == Senders \X Signals

\* error kinds a receiver raises; every one of them is an Exception
StopDownload == "StopDownload"
ErrKinds == {StopDownload, "ValueError", "KeyError"}
Exception == "Exception"
\* the error a cancelled Deferred fails with, an Exception as well
CancelledError == "CancelledError"

\* what a receiver does when invoked: return a value, raise, return a
\* Deferred that has not fired yet, or disconnect itself from the pair
\* being fired and then return a value
Behaviours ==
    {[tag |-> "return", kind |-> "-"], [tag |-> "deferred", kind |-> "-"],
     [tag |-> "unsub", kind |-> "-"]}
    \cup {[tag |-> "raise", kind |-> k] : k \in ErrKinds}

\* results: a plain value, a Failure wrapping an error, a Deferred object
Ok == [tag |-> "value", kind |-> "-"]
Fail(k) == [tag |-> "failure", kind |-> k]
DeferredObj == [tag |-> "deferred", kind |-> "-"]
Outcomes == {Ok} \cup {Fail(k) : k \in ErrKinds}

\* the dont_log keyword: left out, one exception class, or a tuple of them
Omitted == [form |-> "omitted", classes |-> <<>>]
DontLogArgs ==
    {Omitted, [form |-> "class", classes |-> <<"KeyError">>],
     [form |-> "tuple", classes |-> <<"KeyError">>]}

\* the pair the modelled firings are sent for
FireSender == "x1"
FireSignal == "s1"

VARIABLES
    connections,   \* pydispatch connections: key -> list of receivers
    live,          \* receivers whose referent is still reachable
    lastOp,        \* the registry operation that ran last before now
    pc,            \* "idle", or "fired": a dispatch call has returned
    call,          \* the dispatch call: mode, signal, sender, dont_log
    resolved,      \* receivers registered for the call when it started
    invoked,       \* receivers invoked by the call, in order
    unsubscribed,  \* receivers that disconnected themselves in the call
    responses,     \* send_catch_log: the returned list; raised flag
    log,           \* records given to logger.error
    dfds,          \* the receivers' Deferreds, in list order
    receiver,      \* the loop variable the addBoth lambda closes over
    completed,     \* (receiver, outcome) of each finished invocation, in
                   \* the order they finished
    agg            \* the Deferred returned to the caller

(* ------------------------ pydispatch registry ------------------------- *)

RECURSIVE SumLen(_, _)
SumLen(conn, ks) ==
    IF ks = {} THEN 0
    ELSE LET k == CHOOSE x \in ks : TRUE
         IN Len(conn[k]) + SumLen(conn, ks \ {k})

NumRegs(conn) == SumLen(conn, Keys)

Without(lst, r) == SelectSeq(lst, LAMBDA x : x # r)

InList(lst, r) == \E i \in 1..Len(lst) : lst[i] = r

\* dispatcher.getReceivers: the list stored for (sender, signal), the list
\* itself and not a copy; a missing key reads as the empty list.
getReceivers(conn, sender, signal) == conn[<<sender, signal>>]

\* The four lists getAllReceivers walks, in its order: this signal from this
\* sender, any signal from this sender, this signal from any sender, any
\* signal from any sender.
AllKeys(sender, signal) ==
    << <<sender, signal>>, <<sender, Any>>, <<Any, signal>>, <<Any, Any>> >>

\* A fresh liveReceivers(getAllReceivers(sender, signal)) generator: which
\* of the four lists it is in, how far into that list, and the receivers it
\* has produced already.
NewGen == [li |-> 1, pos |-> 0, seen |-> {}]

\* liveReceivers over a getAllReceivers that does not leave out the
\* receivers it has produced already
RECURSIVE liveReceivers_repeating(_, _, _, _, _)
liveReceivers_repeating(conn, alive, sender, signal, g) ==
    IF g.li > 4 THEN [found |-> FALSE, recv |-> NoReceiver, gen |-> g]
    ELSE LET k   == AllKeys(sender, signal)[g.li]
             lst == getReceivers(conn, k[1], k[2])
         IN IF g.pos >= Len(lst)
            THEN liveReceivers_repeating(conn, alive, sender, signal,
                                         [g EXCEPT !.li = @ + 1, !.pos = 0])
            ELSE LET r  == lst[g.pos + 1]
                     g2 == [g EXCEPT !.pos = @ + 1]
                 IN IF r \notin alive
                    THEN liveReceivers_repeating(conn, alive, sender, signal,
                                                 g2)
                    ELSE [found |-> TRUE, recv |-> r,
                          gen |-> [g2 EXCEPT !.seen = @ \cup {r}]]

\* One next() of liveReceivers(getAllReceivers(sender, signal)).  The
\* generators read the stored lists as they are at the time of the call:
\* an entry deleted before the position shifts the rest of its list left.
\* A receiver is produced once, and only while its referent is alive.
\* No receiver connects while a firing runs, so the list a generator holds
\* is always the one stored under its key.
RECURSIVE liveReceivers(_, _, _, _, _)
liveReceivers(conn, alive, sender, signal, g) ==
    IF g.li > 4 THEN [found |-> FALSE, recv |-> NoReceiver, gen |-> g]
    ELSE LET k   == AllKeys(sender, signal)[g.li]
             lst == getReceivers(conn, k[1], k[2])
         IN IF g.pos >= Len(lst)
            THEN liveReceivers(conn, alive, sender, signal,
                               [g EXCEPT !.li = @ + 1, !.pos = 0])
            ELSE LET r  == lst[g.pos + 1]
                     g2 == [g EXCEPT !.pos = @ + 1]
                 IN IF r \in g.seen \/ r \notin alive
                    THEN liveReceivers(conn, alive, sender, signal, g2)
                    ELSE [found |-> TRUE, recv |-> r,
                          gen |-> [g2 EXCEPT !.seen = @ \cup {r}]]

\* The receivers a generator started now would produce if nothing touched
\* the table while it ran.
RECURSIVE Drain(_, _, _, _, _)
Drain(conn, alive, sender, signal, g) ==
    LET nx == liveReceivers(conn, alive, sender, signal, g)
    IN IF nx.found
       THEN <<nx.recv>> \o Drain(conn, alive, sender, signal, nx.gen)
       ELSE <<>>

getAllReceivers(conn, alive, sender, signal) ==
    Drain(conn, alive, sender, signal, NewGen)

\* dispatcher.disconnect(receiver, signal, sender): DispatcherKeyError when
\* the table has no list for the key; otherwise the receiver is deleted
\* from that list in place if it is there (an emptied list drops its key).
disconnect(conn, r, sender, signal) ==
    LET k == <<sender, signal>>
    IN IF conn[k] = <<>>
       THEN [conn |-> conn, raised |-> TRUE]
       ELSE [conn |-> [conn EXCEPT ![k] = Without(@, r)], raised |-> FALSE]

\* dispatcher.connect(receiver, signal, sender): an earlier entry of the
\* receiver in that list is removed, then the receiver is appended.
connect(conn, r, sender, signal) ==
    [conn EXCEPT ![<<sender, signal>>] = Append(Without(@, r), r)]

\* The weak reference callback: a receiver that became unreachable is
\* removed from every list.
removeReceiver(conn, r) == [k \in Keys |-> Without(conn[k], r)]

(* --------------------------- disconnect_all --------------------------- *)

\* disconnect_all_loop calling disconnect(receiver) without signal and
\* sender, which then default to Any
RECURSIVE disconnect_all_loop_defaults(_, _, _, _, _)
disconnect_all_loop_defaults(conn, alive, sender, signal, g) ==
    LET nx == liveReceivers(conn, alive, sender, signal, g)
    IN IF ~nx.found
       THEN [conn |-> conn, raised |-> FALSE]
       ELSE LET d == disconnect(conn, nx.recv, Any, Any)
            IN IF d.raised
               THEN [conn |-> d.conn, raised |-> TRUE]
               ELSE disconnect_all_loop_defaults(d.conn, alive, sender,
                                                 signal, nx.gen)

\* The loop of disconnect_all: each receiver the generator produces is
\* disconnected from (sender, signal) while the generator is still running
\* over the same lists; an error of disconnect ends the call.
RECURSIVE disconnect_all_loop(_, _, _, _, _)
disconnect_all_loop(conn, alive, sender, signal, g) ==
    LET nx == liveReceivers(conn, alive, sender, signal, g)
    IN IF ~nx.found
       THEN [conn |-> conn, raised |-> FALSE]
       ELSE LET d == disconnect(conn, nx.recv, sender, signal)
            IN IF d.raised
               THEN [conn |-> d.conn, raised |-> TRUE]
               ELSE disconnect_all_loop(d.conn, alive, sender, signal, nx.gen)

(* --------------------------- send_catch_log --------------------------- *)

\* isinstance(error, classes) and "except classes": the error's class is one
\* of the classes, or Exception, which every error kind derives from, is.
IsInstance(kind, classes) ==
    \E i \in 1..Len(classes) : classes[i] = kind \/ classes[i] = Exception

ErrorCaught(r) == [msg |-> "Error caught on signal handler", receiver |-> r]
CannotReturn(r) ==
    [msg |-> "Cannot return deferreds from signal handler", receiver |-> r]

\* sync_dont_log without the "dont_log += (StopDownload,)" line
sync_dont_log_without_StopDownload(arg) ==
    LET given == IF arg.form = "omitted" THEN <<>> ELSE arg.classes
        tup   == IF arg.form = "class" THEN <<given[1]>> ELSE given
    IN tup

\* named.pop("dont_log", ()), made a tuple (a Sequence as it is, a single
\* class wrapped), plus StopDownload.
sync_dont_log(arg) ==
    LET given == IF arg.form = "omitted" THEN <<>> ELSE arg.classes
        tup   == IF arg.form = "class" THEN <<given[1]>> ELSE given
    IN tup \o <<StopDownload>>

\* robustApply(receiver, signal=signal, sender=sender, ...): the receiver
\* runs; one that unsubscribes calls disconnect(itself, signal, sender).
robustApply(conn, r, b, sender, signal) ==
    IF b.tag = "unsub" THEN disconnect(conn, r, sender, signal).conn ELSE conn

\* send_catch_log_try without its "except Exception" clause
send_catch_log_try_no_except(r, b, dont_log) ==
    IF b.tag = "raise"
    THEN IF IsInstance(b.kind, dont_log)
         THEN [result |-> Fail(b.kind), logs |-> <<>>, raised |-> FALSE]
         ELSE [result |-> Fail(b.kind), logs |-> <<>>, raised |-> TRUE]
    ELSE IF b.tag = "deferred"
    THEN [result |-> DeferredObj, logs |-> <<CannotReturn(r)>>,
          raised |-> FALSE]
    ELSE [result |-> Ok, logs |-> <<>>, raised |-> FALSE]

\* send_catch_log_try without the logger.error for a returned Deferred
send_catch_log_try_silent_deferred(r, b, dont_log) ==
    IF b.tag = "raise"
    THEN IF IsInstance(b.kind, dont_log)
         THEN [result |-> Fail(b.kind), logs |-> <<>>, raised |-> FALSE]
         ELSE IF IsInstance(b.kind, <<Exception>>)
         THEN [result |-> Fail(b.kind), logs |-> <<ErrorCaught(r)>>,
               raised |-> FALSE]
         ELSE [result |-> Fail(b.kind), logs |-> <<>>, raised |-> TRUE]
    ELSE IF b.tag = "deferred"
    THEN [result |-> DeferredObj, logs |-> <<>>, raised |-> FALSE]
    ELSE [result |-> Ok, logs |-> <<>>, raised |-> FALSE]

\* The try statement of send_catch_log for one receiver: the result that is
\* appended, the records logged, and whether the error leaves the call.
send_catch_log_try(r, b, dont_log) ==
    IF b.tag = "raise"
    THEN IF IsInstance(b.kind, dont_log)
         THEN [result |-> Fail(b.kind), logs |-> <<>>, raised |-> FALSE]
         ELSE IF IsInstance(b.kind, <<Exception>>)
         THEN [result |-> Fail(b.kind), logs |-> <<ErrorCaught(r)>>,
               raised |-> FALSE]
         ELSE [result |-> Fail(b.kind), logs |-> <<>>, raised |-> TRUE]
    ELSE IF b.tag = "deferred"
    THEN [result |-> DeferredObj, logs |-> <<CannotReturn(r)>>,
          raised |-> FALSE]
    ELSE [result |-> Ok, logs |-> <<>>, raised |-> FALSE]

\* The for loop of send_catch_log over the running generator.
RECURSIVE send_catch_log_loop(_, _, _, _, _, _)
send_catch_log_loop(st, alive, sender, signal, dont_log, beh) ==
    LET nx == liveReceivers(st.conn, alive, sender, signal, st.gen)
    IN IF ~nx.found THEN st
       ELSE LET r  == nx.recv
                t  == send_catch_log_try(r, beh[r], dont_log)
                s2 == [st EXCEPT
                         !.conn = robustApply(@, r, beh[r], sender, signal),
                         !.gen = nx.gen,
                         !.invoked = Append(@, r),
                         !.log = @ \o t.logs]
            IN IF t.raised
               THEN [s2 EXCEPT !.raised = TRUE]
               ELSE send_catch_log_loop(
                        [s2 EXCEPT !.responses = Append(@, <<r, t.result>>)],
                        alive, sender, signal, dont_log, beh)

(* ---------------------- Deferred and DeferredList --------------------- *)

NoOutcome == [tag |-> "none", kind |-> "-"]
NoError == [tag |-> "none", kind |-> "-"]
FirstError(f) == [tag |-> "FirstError", kind |-> f.kind]

\* A receiver's Deferred: recv is the receiver it was made for; its current
\* result is the pair (name, out) when name is a receiver, else out alone.
Dfd(r, fired, succeeded, name, out) ==
    [recv |-> r, fired |-> fired, succeeded |-> succeeded, name |-> name,
     out |-> out]

\* maybeDeferred(robustApply, receiver, ...): a returned value gives a
\* Deferred fired with it, a raised error one failed with it, a returned
\* Deferred is handed on as it is, not yet fired.
maybeDeferred(r, b) ==
    IF b.tag = "raise" THEN Dfd(r, TRUE, FALSE, NoReceiver, Fail(b.kind))
    ELSE IF b.tag = "deferred" THEN Dfd(r, FALSE, FALSE, NoReceiver, NoOutcome)
    ELSE Dfd(r, TRUE, TRUE, NoReceiver, Ok)

\* scrapy.utils.defer.maybeDeferred_coro: maybeDeferred for the receivers
\* modelled here
maybeDeferred_coro(r, b) == maybeDeferred(r, b)

\* The DeferredList before any of its Deferreds reported
NoAgg ==
    [called |-> FALSE, succeeded |-> FALSE, value |-> <<>>, one |-> FALSE,
     error |-> NoError, finishedCount |-> 0, fires |-> 0,
     cancelled |-> FALSE]

\* resultList of a DeferredList: (success, result) per Deferred
ResultList(ds) ==
    [i \in 1..Len(ds) |-> <<ds[i].succeeded, <<ds[i].name, ds[i].out>> >>]

\* The flags a DeferredList is built with
Flags(fireOnOneCallback, fireOnOneErrback, consumeErrors) ==
    [fireOnOneCallback |-> fireOnOneCallback,
     fireOnOneErrback |-> fireOnOneErrback, consumeErrors |-> consumeErrors]

\* DeferredList._cbDeferred for the Deferred at index i, which has just
\* fired: the count goes up; a list that has not fired yet fires with the
\* one (result, index) on a success when fireOnOneCallback is set, with
\* FirstError on a failure when fireOnOneErrback is set, and with the
\* result list when every Deferred has reported; with consumeErrors a
\* failure is taken out of the Deferred.
DeferredList_cbDeferred(a, ds, i, flags) ==
    LET cnt == a.finishedCount + 1
        a1  == [a EXCEPT !.finishedCount = cnt]
        a2  == IF a.called THEN a1
               ELSE IF ds[i].succeeded /\ flags.fireOnOneCallback
               THEN [a1 EXCEPT !.called = TRUE, !.succeeded = TRUE,
                               !.value = <<ResultList(ds)[i]>>,
                               !.one = TRUE, !.fires = @ + 1]
               ELSE IF ~ds[i].succeeded /\ flags.fireOnOneErrback
               THEN [a1 EXCEPT !.called = TRUE, !.succeeded = FALSE,
                               !.error = FirstError(ds[i].out),
                               !.fires = @ + 1]
               ELSE IF cnt = Len(ds)
               THEN [a1 EXCEPT !.called = TRUE, !.succeeded = TRUE,
                               !.value = ResultList(ds), !.fires = @ + 1]
               ELSE a1
        ds2 == IF ~ds[i].succeeded /\ flags.consumeErrors
               THEN [ds EXCEPT ![i] = Dfd(@.recv, TRUE, TRUE, NoReceiver,
                                          NoOutcome)]
               ELSE ds
    IN [agg |-> a2, dfds |-> ds2]

\* DeferredList(dfds, ...): an empty list fires at once with []; the
\* Deferreds that have fired already report in list order.
RECURSIVE DeferredList_from(_, _, _, _)
DeferredList_from(a, ds, i, flags) ==
    IF i > Len(ds) THEN [agg |-> a, dfds |-> ds]
    ELSE IF ds[i].fired
    THEN LET x == DeferredList_cbDeferred(a, ds, i, flags)
         IN DeferredList_from(x.agg, x.dfds, i + 1, flags)
    ELSE DeferredList_from(a, ds, i + 1, flags)

DeferredList(ds, flags) ==
    LET a0 == IF Len(ds) = 0 /\ ~flags.fireOnOneCallback
              THEN [NoAgg EXCEPT !.called = TRUE, !.succeeded = TRUE,
                                 !.fires = 1]
              ELSE NoAgg
    IN DeferredList_from(a0, ds, 1, flags)

(* ----------------------- send_catch_log_deferred ---------------------- *)

\* logerror that tests "dont_log is None" only
logerror_only_none(failure, recv, arg) ==
    IF arg.form = "omitted" THEN <<ErrorCaught(recv)>> ELSE <<>>

\* logerror(failure, recv): the records it logs
logerror(failure, recv, arg) ==
    IF arg.form = "omitted" \/ ~IsInstance(failure.kind, arg.classes)
    THEN <<ErrorCaught(recv)>>
    ELSE <<>>

\* The callbacks send_catch_log_deferred adds to a receiver's Deferred, run
\* when it fires with outcome o: logerror bound to recv on a failure, then
\* the lambda, which reads the loop variable at the time it runs.
catch_log_callbacks(recv, loopvar, o, arg) ==
    [d    |-> Dfd(recv, TRUE, TRUE, loopvar, o),
     logs |-> IF o.tag = "failure" THEN logerror(o, recv, arg) ELSE <<>>]

\* lambda out: [x[1] for x in out], added to the DeferredList: the results
\* out of a list of (success, result); a TypeError on one (result, index),
\* whose index has no item 1.
second_of_each(a) ==
    IF a.called /\ a.succeeded
    THEN IF a.one
         THEN [a EXCEPT !.succeeded = FALSE, !.value = <<>>,
                        !.error = Fail("TypeError")]
         ELSE [a EXCEPT !.value = [i \in 1..Len(@) |-> @[i][2]]]
    ELSE a

\* catch_log_flags with fireOnOneCallback=True passed
catch_log_flags_fireOnOneCallback == Flags(TRUE, FALSE, FALSE)

\* DeferredList(dfds) of send_catch_log_deferred: no flag set
catch_log_flags == Flags(FALSE, FALSE, FALSE)

\* The for loop of send_catch_log_deferred over the running generator
RECURSIVE send_catch_log_deferred_loop(_, _, _, _, _, _)
send_catch_log_deferred_loop(st, alive, sender, signal, arg, beh) ==
    LET nx == liveReceivers(st.conn, alive, sender, signal, st.gen)
    IN IF ~nx.found THEN st
       ELSE LET r  == nx.recv
                d0 == maybeDeferred_coro(r, beh[r])
                c  == catch_log_callbacks(r, r, d0.out, arg)
            IN send_catch_log_deferred_loop(
                 [st EXCEPT
                    !.conn = robustApply(@, r, beh[r], sender, signal),
                    !.gen = nx.gen,
                    !.invoked = Append(@, r),
                    !.receiver = r,
                    !.log = IF d0.fired THEN @ \o c.logs ELSE @,
                    !.completed = IF d0.fired THEN Append(@, <<r, d0.out>>)
                                  ELSE @,
                    !.dfds = Append(@, IF d0.fired THEN c.d ELSE d0)],
                 alive, sender, signal, arg, beh)

\* DeferredList.cancel() on the Deferred send_catch_log_deferred returned,
\* which has not fired: every Deferred of the list is cancelled in list
\* order, from index i on here.  One that has not fired fails with
\* CancelledError, which runs the callbacks send_catch_log_deferred added
\* to it and reports to the list; one that has fired is left as it is.
RECURSIVE DeferredList_cancel(_, _, _, _)
DeferredList_cancel(st, i, loopvar, arg) ==
    IF i > Len(st.dfds) THEN st
    ELSE IF st.dfds[i].fired
    THEN DeferredList_cancel(st, i + 1, loopvar, arg)
    ELSE LET recv == st.dfds[i].recv
             c    == catch_log_callbacks(recv, loopvar, Fail(CancelledError),
                                         arg)
             dl   == DeferredList_cbDeferred(
                         st.agg, [st.dfds EXCEPT ![i] = c.d], i,
                         catch_log_flags)
         IN DeferredList_cancel(
                [agg       |-> IF st.agg.called THEN dl.agg
                               ELSE second_of_each(dl.agg),
                 dfds      |-> dl.dfds,
                 log       |-> st.log \o c.logs,
                 completed |-> Append(st.completed,
                                      <<recv, Fail(CancelledError)>>)],
                i + 1, loopvar, arg)

(* ----------------------------- send_deferred -------------------------- *)

\* create_callback with the logerror errback of send_catch_log_deferred
\* added next to it
create_callback_logging(recv, o) ==
    [d    |-> IF o.tag = "failure" THEN Dfd(recv, TRUE, FALSE, NoReceiver, o)
              ELSE Dfd(recv, TRUE, TRUE, recv, o),
     logs |-> IF o.tag = "failure" THEN <<ErrorCaught(recv)>> ELSE <<>>]

\* The callback send_deferred adds to a receiver's Deferred, made by
\* create_callback(receiver), run when the Deferred fires with outcome o: a
\* value becomes (receiver, value), a failure passes it by; nothing is
\* logged.
create_callback(recv, o) ==
    [d    |-> IF o.tag = "failure" THEN Dfd(recv, TRUE, FALSE, NoReceiver, o)
              ELSE Dfd(recv, TRUE, TRUE, recv, o),
     logs |-> <<>>]

\* send_deferred_flags without fireOnOneErrback=True
send_deferred_flags_no_fireOnOneErrback == Flags(FALSE, FALSE, TRUE)

\* send_deferred_flags with fireOnOneCallback=True passed as well
send_deferred_flags_fireOnOneCallback == Flags(TRUE, TRUE, TRUE)

\* DeferredList(dfds, consumeErrors=True, fireOnOneErrback=True)
send_deferred_flags == Flags(FALSE, TRUE, TRUE)

\* unwrap_firsterror left out: the FirstError reaches the caller
unwrap_firsterror_missing(a) == a

\* unwrap_firsterror(err): err.trap(FirstError), then its subFailure
unwrap_firsterror(a) ==
    IF a.called /\ ~a.succeeded /\ a.error.tag = "FirstError"
    THEN [a EXCEPT !.error = Fail(@.kind)]
    ELSE a

\* The for loop of send_deferred over the running generator
RECURSIVE send_deferred_loop(_, _, _, _, _)
send_deferred_loop(st, alive, sender, signal, beh) ==
    LET nx == liveReceivers(st.conn, alive, sender, signal, st.gen)
    IN IF ~nx.found THEN st
       ELSE LET r  == nx.recv
                d0 == maybeDeferred(r, beh[r])
                c  == create_callback(r, d0.out)
            IN send_deferred_loop(
                 [st EXCEPT
                    !.conn = robustApply(@, r, beh[r], sender, signal),
                    !.gen = nx.gen,
                    !.invoked = Append(@, r),
                    !.receiver = r,
                    !.log = IF d0.fired THEN @ \o c.logs ELSE @,
                    !.completed = IF d0.fired THEN Append(@, <<r, d0.out>>)
                                  ELSE @,
                    !.dfds = Append(@, IF d0.fired THEN c.d ELSE d0)],
                 alive, sender, signal, beh)

(* -------------------------- get_engine_status ------------------------ *)

VARIABLES
    engine,        \* the engine: what evaluating each status expression does
    status_pc,     \* "idle", or "returned": get_engine_status has returned
    checks         \* the list get_engine_status returned

\* the status expressions, in the order of the source
tests ==
    << "time()-engine.start_time",
       "len(engine.downloader.active)",
       "engine.scraper.is_idle()",
       "engine.spider.name",
       "engine.spider_is_idle()",
       "engine.slot.closing",
       "len(engine.slot.inprogress)",
       "len(engine.slot.scheduler.dqs or [])",
       "len(engine.slot.scheduler.mqs)",
       "len(engine.scraper.slot.queue)",
       "len(engine.scraper.slot.active)",
       "engine.scraper.slot.active_size",
       "engine.scraper.slot.itemproc_size",
       "engine.scraper.slot.needs_backout()" >>

\* the errors evaluating an expression raises here (an attribute of None, a
\* len() of something without a length); both are Exceptions
EngineErrKinds == {"AttributeError", "TypeError"}
Evaluates == "evaluates"

\* the engines in which at most MaxFailing expressions raise
Engines ==
    UNION {{[i \in 1..Len(tests) |-> IF i \in F THEN k[i] ELSE Evaluates] :
              k \in [F -> EngineErrKinds]} :
           F \in {S \in SUBSET (1..Len(tests)) : Cardinality(S) <= MaxFailing}}

\* an engine whose every expression evaluates
SoundEngine == [i \in 1..Len(tests) |-> Evaluates]

\* the value an expression evaluates to
ValueOf(test) == [value_of |-> test]

\* eval(test) with this engine in scope: a value, or an error raised
eval(eng, i) ==
    IF eng[i] = Evaluates
    THEN [raised |-> FALSE, value |-> ValueOf(tests[i]), kind |-> "-"]
    ELSE [raised |-> TRUE, value |-> ValueOf(tests[i]), kind |-> eng[i]]

\* f"{type(e).__name__} (exception)"
exception_text(kind) == kind \o " (exception)"

\* get_engine_status_loop without its try: the first error ends the loop
RECURSIVE get_engine_status_loop_no_try(_, _, _)
get_engine_status_loop_no_try(eng, i, acc) ==
    IF i > Len(tests) THEN acc
    ELSE LET r == eval(eng, i)
         IN IF r.raised THEN acc
            ELSE get_engine_status_loop_no_try(
                     eng, i + 1, acc \o << <<tests[i], r.value>> >>)

\* The for loop of get_engine_status from expression i on, acc being the
\* checks so far: the pair of the expression and its value, or of the
\* expression and the text naming the error it raised.
RECURSIVE get_engine_status_loop(_, _, _)
get_engine_status_loop(eng, i, acc) ==
    IF i > Len(tests) THEN acc
    ELSE LET r == eval(eng, i)
         IN IF r.raised
            THEN get_engine_status_loop(
                     eng, i + 1,
                     acc \o << <<tests[i], exception_text(r.kind)>> >>)
            ELSE get_engine_status_loop(
                     eng, i + 1, acc \o << <<tests[i], r.value>> >>)

(* ------------------------------ actions ------------------------------- *)

\* lastOp when the last registry operation was not a disconnect_all
NoOp == [op |-> "other", sender |-> Any, signal |-> Any, raised |-> FALSE]
NoCall ==
    [mode |-> "none", sender |-> Any, signal |-> Any, dont_log |-> Omitted]
NoResponses == [list |-> <<>>, raised |-> FALSE]
signalVars ==
    <<connections, live, lastOp, pc, call, resolved, invoked, unsubscribed,
      responses, log, dfds, receiver, completed, agg>>

engineVars == <<engine, status_pc, checks>>

vars == <<signalVars, engineVars>>

firingVars ==
    <<call, resolved, invoked, unsubscribed, responses, log, dfds, receiver,
      completed, agg>>

\* no receiver connected, no dispatch call made
SignalInit ==
    /\ connections = [k \in Keys |-> <<>>]
    /\ live = Receivers
    /\ lastOp = NoOp
    /\ pc = "idle"
    /\ call = NoCall
    /\ resolved = <<>>
    /\ invoked = <<>>
    /\ unsubscribed = {}
    /\ responses = NoResponses
    /\ log = <<>>
    /\ dfds = <<>>
    /\ receiver = NoReceiver
    /\ completed = <<>>
    /\ agg = NoAgg

Init ==
    /\ SignalInit
    /\ engine = SoundEngine
    /\ status_pc = "idle"
    /\ checks = <<>>

\* dispatcher.connect from some component
Connect(r, sender, signal) ==
    /\ pc = "idle"
    /\ r \in live
    /\ NumRegs(connect(connections, r, sender, signal)) <= MaxRegs
    /\ connections' = connect(connections, r, sender, signal)
    /\ lastOp' = NoOp
    /\ UNCHANGED <<engineVars, live, pc, firingVars>>

\* the last other owner of a receiver lets go of it
ReceiverCollected(r) ==
    /\ pc = "idle"
    /\ r \in live
    /\ live' = live \ {r}
    /\ connections' = removeReceiver(connections, r)
    /\ lastOp' = NoOp
    /\ UNCHANGED <<engineVars, pc, firingVars>>

disconnect_all(signal, sender) ==
    LET out == disconnect_all_loop(connections, live, sender, signal, NewGen)
    IN /\ pc = "idle"
       /\ connections' = out.conn
       /\ lastOp' = [op |-> "disconnect_all", sender |-> sender,
                     signal |-> signal, raised |-> out.raised]
       /\ UNCHANGED <<engineVars, live, pc, firingVars>>

\* the behaviours the receivers of one firing may show: only a receiver
\* registered for the very pair fired unsubscribes from it
BehaviourChoices(sender, signal) ==
    LET rs == getAllReceivers(connections, live, sender, signal)
        rset == {rs[i] : i \in 1..Len(rs)}
    IN {beh \in [rset -> Behaviours] :
          \A r \in rset : beh[r].tag = "unsub" =>
              InList(connections[<<sender, signal>>], r)}

Unsubscribers(inv, beh) ==
    {inv[i] : i \in {j \in 1..Len(inv) : beh[inv[j]].tag = "unsub"}}

send_catch_log(signal, sender, arg, beh) ==
    LET st0 == [conn |-> connections, gen |-> NewGen, invoked |-> <<>>,
                responses |-> <<>>, log |-> <<>>, raised |-> FALSE]
        out == send_catch_log_loop(st0, live, sender, signal,
                                   sync_dont_log(arg), beh)
    IN /\ pc = "idle"
       /\ pc' = "fired"
       /\ call' = [mode |-> "sync", sender |-> sender, signal |-> signal,
                   dont_log |-> arg]
       /\ resolved' = getAllReceivers(connections, live, sender, signal)
       /\ connections' = out.conn
       /\ invoked' = out.invoked
       /\ unsubscribed' = Unsubscribers(out.invoked, beh)
       /\ responses' = [list |-> out.responses, raised |-> out.raised]
       /\ log' = out.log
       /\ completed' = out.responses
       /\ UNCHANGED <<engineVars, live, lastOp, dfds, receiver, agg>>

AsyncStart == [conn |-> connections, gen |-> NewGen, invoked |-> <<>>,
               log |-> <<>>, dfds |-> <<>>, receiver |-> NoReceiver,
               completed |-> <<>>]

send_catch_log_deferred(signal, sender, arg, beh) ==
    LET out == send_catch_log_deferred_loop(AsyncStart, live, sender, signal,
                                            arg, beh)
        dl  == DeferredList(out.dfds, catch_log_flags)
    IN /\ pc = "idle"
       /\ pc' = "fired"
       /\ call' = [mode |-> "collect", sender |-> sender, signal |-> signal,
                   dont_log |-> arg]
       /\ resolved' = getAllReceivers(connections, live, sender, signal)
       /\ connections' = out.conn
       /\ invoked' = out.invoked
       /\ unsubscribed' = Unsubscribers(out.invoked, beh)
       /\ log' = out.log
       /\ receiver' = out.receiver
       /\ completed' = out.completed
       /\ dfds' = dl.dfds
       /\ agg' = second_of_each(dl.agg)
       /\ UNCHANGED <<engineVars, live, lastOp, responses>>

\* the Deferred a receiver of send_catch_log_deferred returned fires
catch_log_deferred_fires(i, o) ==
    /\ pc = "fired"
    /\ call.mode = "collect"
    /\ i \in 1..Len(dfds)
    /\ ~dfds[i].fired
    /\ LET c  == catch_log_callbacks(dfds[i].recv, receiver, o, call.dont_log)
           dl == DeferredList_cbDeferred(agg, [dfds EXCEPT ![i] = c.d], i,
                                         catch_log_flags)
       IN /\ log' = log \o c.logs
          /\ completed' = Append(completed, <<dfds[i].recv, o>>)
          /\ dfds' = dl.dfds
          /\ agg' = IF agg.called THEN dl.agg ELSE second_of_each(dl.agg)
    /\ UNCHANGED <<engineVars, connections, live, lastOp, pc, call, resolved,
                   invoked, unsubscribed, responses, receiver>>

send_deferred(signal, sender, beh) ==
    LET out == send_deferred_loop(AsyncStart, live, sender, signal, beh)
        dl  == DeferredList(out.dfds, send_deferred_flags)
    IN /\ pc = "idle"
       /\ pc' = "fired"
       /\ call' = [mode |-> "failfast", sender |-> sender, signal |-> signal,
                   dont_log |-> Omitted]
       /\ resolved' = getAllReceivers(connections, live, sender, signal)
       /\ connections' = out.conn
       /\ invoked' = out.invoked
       /\ unsubscribed' = Unsubscribers(out.invoked, beh)
       /\ log' = out.log
       /\ receiver' = out.receiver
       /\ completed' = out.completed
       /\ dfds' = dl.dfds
       /\ agg' = second_of_each(unwrap_firsterror(dl.agg))
       /\ UNCHANGED <<engineVars, live, lastOp, responses>>

\* the Deferred a receiver of send_deferred returned fires
deferred_fires(i, o) ==
    /\ pc = "fired"
    /\ call.mode = "failfast"
    /\ i \in 1..Len(dfds)
    /\ ~dfds[i].fired
    /\ LET c  == create_callback(dfds[i].recv, o)
           dl == DeferredList_cbDeferred(agg, [dfds EXCEPT ![i] = c.d], i,
                                         send_deferred_flags)
       IN /\ log' = log \o c.logs
          /\ completed' = Append(completed, <<dfds[i].recv, o>>)
          /\ dfds' = dl.dfds
          /\ agg' = IF agg.called THEN dl.agg
                    ELSE second_of_each(unwrap_firsterror(dl.agg))
    /\ UNCHANGED <<engineVars, connections, live, lastOp, pc, call, resolved,
                   invoked, unsubscribed, responses, receiver>>

\* the caller cancels the Deferred send_catch_log_deferred returned while
\* it has not fired
cancel ==
    /\ pc = "fired"
    /\ call.mode = "collect"
    /\ ~agg.called
    /\ LET out == DeferredList_cancel(
                      [agg |-> agg, dfds |-> dfds, log |-> log,
                       completed |-> completed],
                      1, receiver, call.dont_log)
       IN /\ log' = out.log
          /\ completed' = out.completed
          /\ dfds' = out.dfds
          /\ agg' = [out.agg EXCEPT !.cancelled = TRUE]
    /\ UNCHANGED <<engineVars, connections, live, lastOp, pc, call, resolved,
                   invoked, unsubscribed, responses, receiver>>

\* the caller is done with the result of the dispatch call
Done ==
    /\ pc = "fired"
    /\ pc' = "idle"
    /\ call' = NoCall
    /\ resolved' = <<>>
    /\ invoked' = <<>>
    /\ unsubscribed' = {}
    /\ responses' = NoResponses
    /\ log' = <<>>
    /\ dfds' = <<>>
    /\ receiver' = NoReceiver
    /\ completed' = <<>>
    /\ agg' = NoAgg
    /\ lastOp' = NoOp
    /\ UNCHANGED <<engineVars, connections, live>>

Next ==
    \/ \E r \in Receivers, sender \in Senders, signal \in Signals :
          Connect(r, sender, signal)
    \/ \E r \in Receivers : ReceiverCollected(r)
    \/ \E signal \in Signals, sender \in Senders :
          disconnect_all(signal, sender)
    \/ \E arg \in DontLogArgs :
          \E beh \in BehaviourChoices(FireSender, FireSignal) :
             send_catch_log(FireSignal, FireSender, arg, beh)
    \/ \E arg \in DontLogArgs :
          \E beh \in BehaviourChoices(FireSender, FireSignal) :
             send_catch_log_deferred(FireSignal, FireSender, arg, beh)
    \/ \E i \in 1..Cardinality(Receivers), o \in Outcomes :
          catch_log_deferred_fires(i, o)
    \/ cancel
    \/ \E beh \in BehaviourChoices(FireSender, FireSignal) :
          send_deferred(FireSignal, FireSender, beh)
    \/ \E i \in 1..Cardinality(Receivers), o \in Outcomes :
          deferred_fires(i, o)
    \/ Done

Spec == Init /\ [][Next]_vars

\* get_engine_status(engine) called on some engine
get_engine_status ==
    /\ status_pc = "idle"
    /\ status_pc' = "returned"
    /\ checks' = get_engine_status_loop(engine, 1, <<>>)
    /\ UNCHANGED <<engine, signalVars>>

EngineInit ==
    /\ SignalInit
    /\ engine \in Engines
    /\ status_pc = "idle"
    /\ checks = <<>>

EngineNext == get_engine_status

EngineSpec == EngineInit /\ [][EngineNext]_vars

(* ------------------------------- claims ------------------------------- *)

Fired(mode) == pc = "fired" /\ call.mode = mode
FiredKey == <<call.sender, call.signal>>
ReceiversOf(pairs) == [i \in 1..Len(pairs) |-> pairs[i][1]]
\* how many "Error caught on signal handler" records name receiver r
ErrorRecords(r) == Cardinality({j \in 1..Len(log) : log[j] = ErrorCaught(r)})
\* how many times receiver r was invoked in the call
Invocations(r) == Cardinality({j \in 1..Len(invoked) : invoked[j] = r})

\* C1: send_catch_log returns one (receiver, outcome) pair per receiver
\* registered for the firing, in resolution order (the receivers of the
\* exact pair first, in list order), whichever of them return and whichever
\* raise; the call itself never raises.
C1_SyncOnePairPerReceiver ==
    (Fired("sync") /\ unsubscribed = {}) =>
        /\ ~responses.raised
        /\ ReceiversOf(responses.list) = resolved
        /\ \A i \in 1..Len(connections[FiredKey]) :
              responses.list[i][1] = connections[FiredKey][i]
        /\ \A i \in 1..Len(responses.list) :
              responses.list[i][2] \in Outcomes \cup {DeferredObj}

C1_Witness ==
    /\ Fired("sync") /\ unsubscribed = {}
    /\ Len(connections[FiredKey]) = 2
    /\ Len(responses.list) = 2
    /\ responses.list[1][2].tag = "failure"
    /\ responses.list[2][2].tag = "value"

\* C2 (as claimed): in every mode and for every dont_log, no log record
\* names a receiver that raised StopDownload.
C2_StopDownloadNeverLogged ==
    pc = "fired" =>
        \A i \in 1..Len(completed) :
            completed[i][2] = Fail(StopDownload) =>
                \A j \in 1..Len(log) : log[j].receiver # completed[i][1]

\* C3 (as claimed): when the Deferred of send_catch_log_deferred has fired,
\* its i-th pair names the i-th receiver and carries that receiver's own
\* outcome.
C3_CollectPairsNameTheirReceiver ==
    (Fired("collect") /\ agg.called) =>
        /\ agg.succeeded
        /\ Len(agg.value) = Len(dfds)
        /\ \A i \in 1..Len(dfds) :
              /\ agg.value[i][1] = dfds[i].recv
              /\ \E j \in 1..Len(completed) :
                    completed[j] = <<dfds[i].recv, agg.value[i][2]>>

\* C4: the Deferred of send_catch_log_deferred has fired exactly when every
\* invoked receiver's Deferred has, failures included, and then it holds
\* one result per receiver.
C4_CollectWaitsForAll ==
    Fired("collect") =>
        /\ Len(dfds) = Len(invoked)
        /\ \A i \in 1..Len(dfds) : dfds[i].recv = invoked[i]
        /\ agg.called <=> \A i \in 1..Len(dfds) : dfds[i].fired
        /\ agg.called => agg.succeeded /\ Len(agg.value) = Len(dfds)
        /\ agg.fires = (IF agg.called THEN 1 ELSE 0)

C4_Witness ==
    /\ Fired("collect")
    /\ ~agg.called
    /\ \E i, j \in 1..Len(dfds) :
          /\ dfds[i].fired /\ dfds[i].out.tag = "failure"
          /\ ~dfds[j].fired

\* indexes in completed of the invocations that failed
FailureIndexes == {j \in 1..Len(completed) : completed[j][2].tag = "failure"}
FirstFailure ==
    completed[CHOOSE j \in FailureIndexes : \A k \in FailureIndexes : j <= k][2]

\* C5: in send_deferred, once an invocation has failed the returned Deferred
\* has failed, whether or not other receivers are still pending, and its
\* error is the Failure of the first invocation that failed, not a
\* FirstError around it.
C5_FailFastSurfacesFirstFailure ==
    (Fired("failfast") /\ FailureIndexes # {}) =>
        /\ agg.called
        /\ ~agg.succeeded
        /\ agg.error = FirstFailure

C5_Witness ==
    /\ Fired("failfast")
    /\ agg.called /\ ~agg.succeeded
    /\ \E i, j \in 1..Len(dfds) :
          /\ i < j /\ ~dfds[i].fired
          /\ completed = <<<<dfds[j].recv, Fail("ValueError")>>>>

\* an error kind that is neither StopDownload nor of a class the caller
\* passed as dont_log
NotSuppressed(kind) ==
    kind # StopDownload /\ ~IsInstance(kind, call.dont_log.classes)

\* C6: in send_catch_log and send_catch_log_deferred a receiver failing
\* with an error that is neither StopDownload nor caller-suppressed gets
\* exactly one "Error caught on signal handler" record naming it and a
\* failure outcome at its place in the result; the call does not raise and
\* the returned Deferred does not fail.
C6_OtherErrorsLoggedOnce ==
    (Fired("sync") \/ Fired("collect")) =>
        /\ ~responses.raised
        /\ agg.called => agg.succeeded
        /\ \A j \in 1..Len(completed) :
              LET r == completed[j][1]
                  o == completed[j][2]
              IN (o.tag = "failure" /\ NotSuppressed(o.kind)) =>
                    /\ ErrorRecords(r) = 1
                    /\ Fired("sync") => responses.list[j] = <<r, o>>
                    /\ (Fired("collect") /\ agg.called) =>
                          \E i \in 1..Len(dfds) :
                              dfds[i].recv = r /\ agg.value[i][2] = o

C6_Witness ==
    /\ Fired("collect")
    /\ call.dont_log.form = "tuple"
    /\ agg.called
    /\ Len(completed) = 2
    /\ \A j \in 1..2 : completed[j][2] = Fail("ValueError")
    /\ Len(log) = 2

\* C7 (as claimed): send_catch_log right after disconnect_all for the same
\* signal and sender returns the empty list and invokes no receiver.
C7_NothingLeftAfterDisconnectAll ==
    (Fired("sync") /\ lastOp.op = "disconnect_all"
       /\ <<lastOp.sender, lastOp.signal>> = FiredKey) =>
        responses.list = <<>> /\ invoked = <<>>

\* C8 (as claimed): every receiver registered for a firing when it starts
\* is invoked exactly once in it, also when receivers unsubscribe themselves
\* while invoked; a firing in which nobody unsubscribes invokes exactly the
\* receivers registered.
C8_SelfUnsubscribeSkipsNobody ==
    pc = "fired" =>
        /\ \A i \in 1..Len(resolved) : Invocations(resolved[i]) = 1
        /\ unsubscribed = {} => invoked = resolved

\* C9: the Deferred of send_deferred fires at most once and send_deferred
\* logs nothing; once it has fired, a later result of another receiver
\* changes neither its result nor the log.
C9_FailFastFiresOnce ==
    /\ [](Fired("failfast") => agg.fires <= 1 /\ log = <<>>)
    /\ [][(Fired("failfast") /\ agg.called /\ pc' = "fired") =>
             /\ agg'.called
             /\ agg'.succeeded = agg.succeeded
             /\ agg'.error = agg.error
             /\ agg'.value = agg.value
             /\ agg'.fires = agg.fires
             /\ log' = log]_vars

C9_Witness ==
    /\ Fired("failfast")
    /\ Len(dfds) = 2
    /\ completed = <<<<dfds[2].recv, Fail("KeyError")>>,
                     <<dfds[1].recv, Fail("ValueError")>>>>
    /\ agg.error = Fail("KeyError")

\* C10: disconnect_all(signal, sender) changes no list but the one of
\* (sender, signal), and a firing of another pair after it still invokes
\* every receiver registered for that pair.
C10_DisconnectAllFrame ==
    /\ [][\A signal \in Signals, sender \in Senders :
             disconnect_all(signal, sender) =>
                \A k \in Keys \ {<<sender, signal>>} :
                    connections'[k] = connections[k]]_vars
    /\ []((pc = "fired" /\ lastOp.op = "disconnect_all"
             /\ <<lastOp.sender, lastOp.signal>> # FiredKey
             /\ unsubscribed = {}) =>
            \A i \in 1..Len(connections[FiredKey]) :
                Invocations(connections[FiredKey][i]) = 1)

C10_Witness ==
    /\ pc = "fired"
    /\ lastOp.op = "disconnect_all" /\ ~lastOp.raised
    /\ <<lastOp.sender, lastOp.signal>> = <<FireSender, Any>>
    /\ connections[<<FireSender, Any>>] = <<>>
    /\ Len(connections[FiredKey]) = 1
    /\ invoked = connections[FiredKey]

\* C11 (as claimed): disconnect_all is idempotent: right after a
\* disconnect_all(signal, sender) that returned, a second call with the same
\* arguments raises no error and leaves every list as the first call left it.
C11_DisconnectAllIdempotent ==
    (pc = "idle" /\ lastOp.op = "disconnect_all" /\ ~lastOp.raised) =>
        disconnect_all_loop(connections, live, lastOp.sender, lastOp.signal,
                            NewGen)
            = [conn |-> connections, raised |-> FALSE]

\* how many log records of any kind name receiver r
LogRecords(r) == Cardinality({j \in 1..Len(log) : log[j].receiver = r})

\* C12: in send_catch_log a receiver that returns a Deferred gets exactly
\* one log record, the "Cannot return deferreds" error; the Deferred itself,
\* not fired, is its entry of the returned list; the call returns without
\* waiting for it, and the receivers after it are invoked in order.
C12_SyncDeferredLoggedAndRecorded ==
    (Fired("sync") /\ unsubscribed = {}) =>
        /\ ~responses.raised
        /\ invoked = resolved
        /\ ReceiversOf(responses.list) = resolved
        /\ \A j \in 1..Len(responses.list) :
              LET r == responses.list[j][1]
              IN /\ responses.list[j][2] = DeferredObj =>
                       /\ LogRecords(r) = 1
                       /\ \E i \in 1..Len(log) : log[i] = CannotReturn(r)
                 /\ (\E i \in 1..Len(log) : log[i] = CannotReturn(r)) =>
                       responses.list[j][2] = DeferredObj

C12_Witness ==
    /\ Fired("sync") /\ unsubscribed = {}
    /\ Len(responses.list) = 2
    /\ responses.list[1][2] = DeferredObj
    /\ responses.list[2][2].tag = "failure"
    /\ log = <<CannotReturn(responses.list[1][1]),
               ErrorCaught(responses.list[2][1])>>

\* the error kind is of a class the caller passed as dont_log
CallerSuppressed(kind) ==
    call.dont_log.form # "omitted" /\ IsInstance(kind, call.dont_log.classes)

\* C13: in send_catch_log and send_catch_log_deferred a receiver failing
\* with an error of a class the caller passed as dont_log has that failure
\* as its outcome in the result and no log record; in send_catch_log the
\* errors that are not logged are exactly those of the caller's classes and
\* StopDownload, for dont_log given as a tuple and as a single class.
C13_CallerSuppressedNotLogged ==
    (Fired("sync") \/ Fired("collect")) =>
        /\ ~responses.raised
        /\ agg.called => agg.succeeded
        /\ \A j \in 1..Len(completed) :
              LET r == completed[j][1]
                  o == completed[j][2]
              IN o.tag = "failure" =>
                    /\ CallerSuppressed(o.kind) => LogRecords(r) = 0
                    /\ Fired("sync") =>
                          /\ responses.list[j] = <<r, o>>
                          /\ LogRecords(r) = 0 <=>
                                (CallerSuppressed(o.kind)
                                   \/ o.kind = StopDownload)
                    /\ (Fired("collect") /\ agg.called) =>
                          \E i \in 1..Len(dfds) :
                              dfds[i].recv = r /\ agg.value[i][2] = o

C13_Witness ==
    /\ Fired("sync")
    /\ call.dont_log.form = "class"
    /\ Len(responses.list) = 2
    /\ responses.list[1][2] = Fail("KeyError")
    /\ responses.list[2][2] = Fail(StopDownload)
    /\ log = <<>>

\* C14: in send_deferred, while no invocation has failed, the returned
\* Deferred has fired exactly when the Deferred of every invoked receiver
\* has, and then it succeeded with the list of (receiver, value) pairs in
\* the order the receivers were resolved, whatever order they finished in.
C14_FailFastAllSucceed ==
    (Fired("failfast") /\ FailureIndexes = {}) =>
        /\ Len(dfds) = Len(invoked)
        /\ unsubscribed = {} => invoked = resolved
        /\ agg.called <=> \A i \in 1..Len(dfds) : dfds[i].fired
        /\ agg.called =>
              /\ agg.succeeded
              /\ agg.fires = 1
              /\ agg.value = [i \in 1..Len(invoked) |-> <<invoked[i], Ok>>]

C14_Witness ==
    /\ Fired("failfast") /\ unsubscribed = {}
    /\ Len(resolved) = 2
    /\ completed = <<<<resolved[2], Ok>>, <<resolved[1], Ok>>>>
    /\ agg.called /\ agg.succeeded
    /\ agg.value = <<<<resolved[1], Ok>>, <<resolved[2], Ok>>>>

\* C15: get_engine_status returns one (expression, value) pair for each of
\* its 14 status expressions, in the order they are listed: the value the
\* expression evaluates to, or, when evaluating it raises, the text
\* "<name of the error's class> (exception)"; an expression that raises
\* does not keep the later ones from being evaluated.
C15_StatusPairPerExpression ==
    status_pc = "returned" =>
        /\ Len(checks) = 14
        /\ Len(tests) = 14
        /\ \A i \in 1..Len(tests) :
              /\ checks[i][1] = tests[i]
              /\ engine[i] = Evaluates => checks[i][2] = ValueOf(tests[i])
              /\ engine[i] = "AttributeError" =>
                    checks[i][2] = "AttributeError (exception)"
              /\ engine[i] = "TypeError" =>
                    checks[i][2] = "TypeError (exception)"

C15_Witness ==
    /\ status_pc = "returned"
    /\ engine[4] = "AttributeError"
    /\ engine[8] = "TypeError"
    /\ checks[4] = <<"engine.spider.name", "AttributeError (exception)">>
    /\ checks[8] = <<"len(engine.slot.scheduler.dqs or [])",
                     "TypeError (exception)">>
    /\ checks[14] = <<"engine.scraper.slot.needs_backout()",
                      ValueOf("engine.scraper.slot.needs_backout()")>>

\* C16 (as claimed): from the step that cancels the pending Deferred of
\* send_catch_log_deferred on, that step included, the firing gets no
\* further log record and no further outcome.
C16_NothingRecordedAfterCancel ==
    [][((cancel \/ (Fired("collect") /\ agg.cancelled)) /\ pc' = "fired") =>
          (log' = log /\ completed' = completed)]_vars

\* some invoked receiver's Deferred has not fired
SomePending == \E i \in 1..Len(dfds) : ~dfds[i].fired

\* C17 (as claimed): in send_catch_log_deferred and in send_deferred, while
\* the Deferred of some receiver has not fired the returned Deferred has not
\* fired, whatever the other receivers did.
C17_PendingReceiverHoldsAggregate ==
    ((Fired("collect") \/ Fired("failfast")) /\ SomePending) => ~agg.called

\* C17 (amended): in send_catch_log_deferred, while the Deferred of some
\* receiver has not fired the returned Deferred has not fired; in
\* send_deferred the same holds while no receiver has failed, and once a
\* receiver has failed the returned Deferred has failed, pending receivers
\* or not.
C17_PendingHoldsUnlessFailFastFailure ==
    /\ (Fired("collect") /\ SomePending) => ~agg.called
    /\ (Fired("failfast") /\ SomePending) =>
          (agg.called <=> FailureIndexes # {})
    /\ (Fired("failfast") /\ SomePending /\ agg.called) => ~agg.succeeded

C17_Witness ==
    /\ Fired("failfast")
    /\ Len(dfds) = 2
    /\ ~dfds[1].fired
    /\ completed = <<<<dfds[2].recv, Ok>>>>
    /\ ~agg.called

\* C18: when a dispatch call of any of the three modes has returned, every
\* receiver resolved for the firing has been invoked exactly once, in the
\* order resolved, whether the receivers before it returned, raised or
\* returned a Deferred that has not fired; a receiver in several of the
\* lists matching the firing is invoked once; in the two Deferred modes
\* each invocation has its Deferred in the list; nothing is invoked after
\* the call returned.
C18_EveryReceiverStartedOnce ==
    /\ []((pc = "fired" /\ unsubscribed = {}) =>
            /\ invoked = resolved
            /\ \A i \in 1..Len(resolved) : Invocations(resolved[i]) = 1
            /\ \A li \in 1..4 :
                  LET k == AllKeys(call.sender, call.signal)[li]
                  IN \A i \in 1..Len(connections[k]) :
                        Invocations(connections[k][i]) = 1
            /\ call.mode = "sync" => ReceiversOf(responses.list) = resolved
            /\ call.mode # "sync" =>
                  /\ Len(dfds) = Len(resolved)
                  /\ \A i \in 1..Len(dfds) : dfds[i].recv = resolved[i])
    /\ [][(pc = "fired" /\ pc' = "fired") => invoked' = invoked]_vars

C18_Witness ==
    /\ Fired("failfast") /\ unsubscribed = {}
    /\ Len(resolved) = 2
    /\ invoked = resolved
    /\ completed = <<<<resolved[1], Fail("ValueError")>>>>
    /\ agg.called /\ ~agg.succeeded
    /\ ~dfds[2].fired

====
